---- MODULE Spec2Model ----
(***************************************************************************)
(* A model of vufs (src/vufs.go): a 9P2000 file server that fans the       *)
(* T-messages of all connections into one channel, fcallchan, from which   *)
(* a single dispatcher, fcallhandler, runs the handlers rversion, rattach, *)
(* rauth, rstat, rcreate and rwalk against an in-memory tree, the fid      *)
(* tables of the connections and the backing host directory.               *)
(***************************************************************************)
EXTENDS Integers, Sequences, FiniteSets, TLC

(***************************************************************************)
(* Unsigned integers that the code uses as bit fields (Perm, Qid.Type,     *)
(* Qid.Vers, Dir.Type, the open mode, NOFID) are written as the set of the *)
(* positions of their one bits: 0 is {}, 1 is {0}, 0x80 is {7}.  The       *)
(* integers of TLC are 32-bit signed and hold neither DMDIR nor NOFID.     *)
(***************************************************************************)
\* The bit field of the number n < 2^16.
RECURSIVE Pow2(_)
Pow2(n) == IF n = 0 THEN 1 ELSE 2 * Pow2(n - 1)
Bits(n) == {i \in 0..15 : (n \div Pow2(i)) % 2 = 1}

\* a & b
BitAnd(a, b) == a \cap b

\* a | b
BitOr(a, b) == a \cup b

\* a >> n
Shr(a, n) == {i - n : i \in {j \in a : j >= n}}

\* uint8(a)
Uint8(a) == a \cap (0..7)

\* The bit fields of 1, 3, 7 and 0777.
One == {0}
Three == {0, 1}
Seven == {0, 1, 2}
Mask0777 == 0..8

(***************************************************************************)
(* Protocol constants.  const.go, fcall.go and dir.go of the repository    *)
(* are not among the source files; the values are those of 9P2000.         *)
(***************************************************************************)
Tversion == 100
Rversion == 101
Tauth == 102
Tattach == 104
Rerror == 107
Twalk == 110
Tcreate == 114
Rcreate == 115
Tclunk == 120
Tstat == 124
NOFID == 0..31
QTDIR == {7}
DMDIR == {31}
DMAPPEND == {30}
DMEXCL == {29}
DMREAD == {2}
DMWRITE == {1}
DMEXEC == {0}
OREAD == {}
OWRITE == {0}
ORDWR == {1}
OEXEC == {0, 1}
OTRUNC == {4}
MAX_MSIZE == 8216
VERSION9P == "9P2000"
DEFAULT_USER == "adm"

(***************************************************************************)
(* Bounds of the model.                                                    *)
(***************************************************************************)
\* Tcreate requests that reach the host (each may add a node and an inode).
MaxCreate == 2

(***************************************************************************)
(* Go's strings.Index(s, "."): the 0-based index of the first ".", or -1.  *)
(***************************************************************************)
IndexDot(s) ==
    LET hits == {i \in 1..Len(s) : SubSeq(s, i, i) = "."}
    IN  IF hits = {} THEN -1
        ELSE (CHOOSE i \in hits : \A j \in hits : i <= j) - 1

\* strings.HasPrefix(s, p), used to state claims only
HasPrefix(s, p) == Len(s) >= Len(p) /\ SubSeq(s, 1, Len(p)) = p

(***************************************************************************)
(* State.                                                                  *)
(*   tree       the nodes of vu.tree, numbered from 1 (the root); a node's *)
(*              parent and children hold node numbers                      *)
(*   host       the backing directory: path (names below vu.Root) -> file  *)
(*   sidecar    the contents of the ".vufs" files: path of the file the    *)
(*              sidecar belongs to -> its text                             *)
(*   nextIno    the next inode the host hands out                          *)
(*   ncreate    host files created so far (bounded by MaxCreate)           *)
(*   fids       Conn.fids of every connection                              *)
(*   msize      Conn.msize of every connection                             *)
(*   fcallchan  the senders blocked on vu.fcallchan, in arrival order      *)
(*   cur        the ConnFcall the dispatcher has received and not yet      *)
(*              handled (a sequence of length 0 or 1)                      *)
(*   rc         the shared response buffer, as last written out            *)
(*   last       history: the request handled last and how it went          *)
(*   versioned  history: the connections that had a Tversion handled       *)
(*   crashed    the process has panicked                                   *)
(*   pin, pout  the arguments and the result of a call of CheckPerm made   *)
(*              on its own (SpecPerm)                                      *)
(* The goroutines (SpecStop), each by the statement it is at:              *)
(*   stopping   the caller of Stop: "none" before the call, then the       *)
(*              statement it executes next, "returned" at the end          *)
(*   disp       fcallhandler: "recv", "handle", "loop", "signal", "exit"   *)
(*   lis        listen: "accept", "signal", "exit", or the name of the     *)
(*              connection it is sending on connchan                       *)
(*   conh       connhandler: "recv" or "exit"                              *)
(*   rd         Conn.recv of every connection: "none" before the           *)
(*              connection exists, "read", "send", "exit"                  *)
(*   nread      history: the requests decoded on every connection; the     *)
(*              n-th carries tag n                                         *)
(*   recvd      history: the requests the dispatcher received, in order    *)
(*   wrote      history: the replies written, in order                     *)
(*   failed     history: the connections on which ReadFcall has failed     *)
(***************************************************************************)
VARIABLES tree, host, sidecar, nextIno, ncreate, fids, msize, fcallchan, cur,
          rc, last, versioned, crashed, pin, pout,
          stopping, disp, lis, conh, rd, nread, recvd, wrote, failed

threads == <<stopping, disp, lis, conh, rd, nread, recvd, wrote, failed>>

vars == <<tree, host, sidecar, nextIno, ncreate, fids, msize, fcallchan, cur,
          rc, last, versioned, crashed, pin, pout, threads>>

\* The connections accepted by connhandler.
Conns == {"c1", "c2"}

\* The fids a client uses.
FidNums == {0, 1, 2}

\* The empty Go map.
EmptyMap == [x \in {} |-> 0]

\* m[k] = v
MapPut(m, k, v) == [x \in DOMAIN m \cup {k} |-> IF x = k THEN v ELSE m[x]]

Min(a, b) == IF a < b THEN a ELSE b

(***************************************************************************)
(* The backing directory at startup: vu.Root holds the directory a, which  *)
(* holds a directory a, and the regular file f.  ma is the host mode of    *)
(* the directory a.                                                        *)
(***************************************************************************)
WalkOrder == << <<>>, <<"a">>, <<"a", "a">>, <<"f">> >>

HostAtStart(ma) ==
    [p \in {WalkOrder[i] : i \in 1..Len(WalkOrder)} |->
        CASE p = <<>>         -> [kind |-> "dir",  ino |-> 1, mode |-> Bits(493)]
          [] p = <<"a">>      -> [kind |-> "dir",  ino |-> 2, mode |-> ma]
          [] p = <<"a", "a">> -> [kind |-> "dir",  ino |-> 3, mode |-> Bits(493)]
          [] OTHER            -> [kind |-> "file", ino |-> 4, mode |-> Bits(420)]]

\* The host modes the directory a may have at startup: 0700, 0755, 0777.
StartModes == {Bits(448), Bits(493), Mask0777}

\* filepath.Join(ospath, "..")
ParentPath(p) == IF p = <<>> THEN <<>> ELSE SubSeq(p, 1, Len(p) - 1)

\* loadmap[path]: the number of the node built for path
LoadMap(p) == CHOOSE i \in 1..Len(WalkOrder) : WalkOrder[i] = p

(***************************************************************************)
(* Dir.Null() followed by buildfile's assignments, for the i-th path of    *)
(* the walk.  Null sets every numeric field to all ones (9P's "don't       *)
(* touch" values), so Type and Qid.Type have every bit set; buildfile ors   *)
(* QTDIR into Qid.Vers, not into Qid.Type, and overwrites the root's Mode  *)
(* (DMDIR included) with 0777.  The modification time is taken as 0.       *)
(* Every built node, directory or not, gets a children map; the children   *)
(* are entered by the buildfile calls of the paths below it.               *)
(***************************************************************************)
NullType == 0..15
NullQidType == 0..7

buildfile(h, i) ==
    LET p    == WalkOrder[i]
        info == h[p]
        dir  == info.kind = "dir"
        kids == {j \in 1..Len(WalkOrder) : WalkOrder[j] # <<>> /\ ParentPath(WalkOrder[j]) = p}
    IN  [Name     |-> IF p = <<>> THEN "/" ELSE p[Len(p)],
         Type     |-> NullType,
         QidType  |-> NullQidType,
         QidVers  |-> IF dir THEN BitOr({}, QTDIR) ELSE {},
         QidPath  |-> info.ino,
         Mode     |-> IF p = <<>> THEN Mask0777
                      ELSE IF dir THEN BitOr(BitAnd(info.mode, Mask0777), DMDIR)
                      ELSE BitAnd(info.mode, Mask0777),
         Length   |-> 0,
         Uid      |-> DEFAULT_USER,
         Gid      |-> DEFAULT_USER,
         Muid     |-> DEFAULT_USER,
         parent   |-> IF p = <<>> THEN i ELSE LoadMap(ParentPath(p)),
         children |-> [nil |-> FALSE,
                       m   |-> [n \in {WalkOrder[j][Len(WalkOrder[j])] : j \in kids} |->
                                 LoadMap(Append(p, n))]],
         isdir    |-> dir]

\* buildtree: filepath.Walk calls buildnode on every path under vu.Root
buildtree(h) == [i \in 1..Len(WalkOrder) |-> buildfile(h, i)]

\* f.Qid
Qid(f) == [Type |-> f.QidType, Vers |-> f.QidVers, Path |-> f.QidPath]

\* The number of vu.tree.root.
Root == 1

(***************************************************************************)
(* Fcall: the fields of a T- or R-message the handlers use.                *)
(***************************************************************************)
NoQid == [Type |-> {}, Vers |-> {}, Path |-> 0]

\* rc after rc.Reset(): every field empty.
rcReset ==
    [Type |-> 0, Tag |-> 0, Fid |-> 0, Msize |-> 0, Version |-> "", Qid |-> NoQid,
     Wqid |-> <<>>, Ename |-> "", Stat |-> <<>>]

\* A T-message: the fields a message type does not carry are empty.
TMsg(type, tag) ==
    [Type |-> type, Tag |-> tag, Fid |-> 0, Afid |-> {}, Uname |-> "", Aname |-> "",
     Msize |-> 0, Version |-> "", Newfid |-> 0, Wname |-> <<>>, Name |-> "",
     Perm |-> {}, Mode |-> {}]

(***************************************************************************)
(* What a handler does: the error string it returns, rc as it leaves it,   *)
(* and the state it leaves behind.  fidsC and msizeC are the fid table and *)
(* msize of the request's connection; dropped lists the ConnFcalls the     *)
(* handler took off fcallchan; opened says that the host file was opened;  *)
(* panic says that the handler panicked instead of returning.              *)
(***************************************************************************)
Unchanged(c) ==
    [emsg |-> "", rc |-> rcReset, fidsC |-> fids[c], tree |-> tree, host |-> host,
     sidecar |-> sidecar, nextIno |-> nextIno, msizeC |-> msize[c],
     chan |-> fcallchan, dropped |-> <<>>, opened |-> FALSE, panic |-> FALSE]

Fail(c, emsg) == [Unchanged(c) EXCEPT !.emsg = emsg]

(***************************************************************************)
(* rversion                                                                *)
(***************************************************************************)
\* A version string chosen by comparing the prefix of the client's string.
VersionReplyByPrefix(version) ==
    IF HasPrefix(version, VERSION9P) THEN VERSION9P ELSE "unknown"

\* The version string rversion answers with.
VersionReply(version) ==
    LET i   == IndexDot(version)
        ver == IF i > 0 THEN SubSeq(version, 1, i) ELSE version
    IN  IF ver # VERSION9P THEN "unknown" ELSE ver

\* Stop has set vu.dying and closed vu.connchan.
Dying == stopping # "none"

\* Stop has closed vu.fcallchan.
FcallchanClosed == stopping \notin {"none", "closefcall"}

rversion(c, fc) ==
    LET ver == VersionReply(fc.Version)
        msz == IF fc.Msize > MAX_MSIZE THEN MAX_MSIZE ELSE fc.Msize
    IN  IF ver # "unknown" /\ fcallchan # <<>>
        THEN \* the select receives from the first blocked sender and returns
             [Fail(c, "new session started, dropping this request") EXCEPT
                 !.chan = Tail(fcallchan), !.dropped = <<Head(fcallchan)>>]
        ELSE IF ver # "unknown" /\ FcallchanClosed
        THEN \* the select receives the zero value of the closed channel
             Fail(c, "new session started, dropping this request")
        ELSE [Unchanged(c) EXCEPT
                 !.msizeC = msz,
                 !.rc = [rcReset EXCEPT !.Type = Rversion, !.Msize = msz, !.Version = ver]]

(***************************************************************************)
(* rattach, rauth, rstat                                                   *)
(***************************************************************************)
\* rattach without the check that fid is free
rattachRebinds(c, fc) ==
    IF fc.Aname # "/" THEN Fail(c, "can only attach to root directory")
    ELSE IF fc.Afid # NOFID THEN Fail(c, "authentication not supported")
    ELSE [Unchanged(c) EXCEPT
             !.fidsC = MapPut(fids[c], fc.Fid, [file |-> Root, uid |-> fc.Uname, open |-> FALSE]),
             !.rc = [rcReset EXCEPT !.Qid = Qid(tree[Root])]]

rattach(c, fc) ==
    IF fc.Aname # "/" THEN Fail(c, "can only attach to root directory")
    ELSE IF fc.Afid # NOFID THEN Fail(c, "authentication not supported")
    ELSE IF fc.Fid \in DOMAIN fids[c] THEN Fail(c, "fid already in use on this connection")
    ELSE [Unchanged(c) EXCEPT
             !.fidsC = MapPut(fids[c], fc.Fid, [file |-> Root, uid |-> fc.Uname, open |-> FALSE]),
             !.rc = [rcReset EXCEPT !.Qid = Qid(tree[Root])]]

rauth(c, fc) == Fail(c, "not supported")

\* fid.file.Bytes(): the stat record of the node
StatBytes(f) ==
    [Type |-> f.Type, Qid |-> Qid(f), Mode |-> f.Mode, Length |-> f.Length,
     Name |-> f.Name, Uid |-> f.Uid, Gid |-> f.Gid, Muid |-> f.Muid]

rstat(c, fc) ==
    IF fc.Fid \notin DOMAIN fids[c] THEN Fail(c, "fid not found")
    ELSE [Unchanged(c) EXCEPT
             !.rc = [rcReset EXCEPT !.Stat = <<StatBytes(tree[fids[c][fc.Fid].file])>>]]

(***************************************************************************)
(* CheckPerm                                                               *)
(***************************************************************************)
CheckPerm(f, uid, want) ==
    IF uid = "" THEN FALSE
    ELSE LET perm   == BitAnd(want, Seven)
             other  == BitAnd(f.Mode, Seven)
             fperm  == IF f.Uid = uid THEN BitOr(other, BitAnd(Shr(f.Mode, 6), Seven)) ELSE other
         IN  IF BitAnd(other, perm) = perm THEN TRUE
             ELSE BitAnd(fperm, perm) = perm

(***************************************************************************)
(* The host file system.  A path is the sequence of names below vu.Root.   *)
(***************************************************************************)
\* One name as a path component of filepath.Join: "" and "/" add nothing.
Part(n) == IF n = "" \/ n = "/" THEN <<>> ELSE <<n>>

\* filepath.Join(vu.Root, parent.Name, name)
OsPath(pname, name) == Part(pname) \o Part(name)

\* filepath.Join(parent.Name, name), the path of the error strings
FsysPath(pname, name) ==
    IF name = "" THEN pname
    ELSE IF pname = "" THEN name
    ELSE IF pname = "/" THEN "/" \o name
    ELSE pname \o "/" \o name

\* openflags(mode, perm), as the set of the flags that are set
openflags(mode, perm) ==
    (CASE BitAnd(mode, Three) = OREAD  -> {"O_RDONLY"}
       [] BitAnd(mode, Three) = ORDWR  -> {"O_RDWR"}
       [] BitAnd(mode, Three) = OWRITE -> {"O_WRONLY"}
       [] OTHER                    -> {"O_RDONLY"})
    \cup (IF BitAnd(mode, OTRUNC) # {} THEN {"O_TRUNC"} ELSE {})
    \cup (IF BitAnd(perm, DMAPPEND) # {} THEN {"O_APPEND"} ELSE {})
    \cup (IF BitAnd(perm, DMEXCL) # {} THEN {"O_EXCL"} ELSE {})

(***************************************************************************)
(* os.OpenFile(path, flags | O_CREATE, gomode) on host h.  ok = FALSE is   *)
(* an error of the host's own (no space, no permission).  Otherwise the    *)
(* call fails when the directory of path is missing or is no directory,    *)
(* when path is a directory, and when path exists and O_EXCL is set; it    *)
(* opens path when it is an existing file, and creates it when it is       *)
(* missing.                                                                *)
(***************************************************************************)
OpenFile(h, ino, path, flags, gomode, ok) ==
    LET keep(err) == [err |-> err, host |-> h, ino |-> 0, nextIno |-> ino]
    IN  IF ~ok THEN keep("no space left on device")
        ELSE IF path = <<>> THEN keep("is a directory")
        ELSE IF ParentPath(path) \notin DOMAIN h THEN keep("no such file or directory")
        ELSE IF h[ParentPath(path)].kind # "dir" THEN keep("not a directory")
        ELSE IF path \in DOMAIN h
             THEN IF h[path].kind = "dir" THEN keep("is a directory")
                  ELSE IF "O_EXCL" \in flags THEN keep("file exists")
                  ELSE [err |-> "", host |-> h, ino |-> h[path].ino, nextIno |-> ino]
        ELSE [err |-> "", ino |-> ino, nextIno |-> ino + 1,
              host |-> MapPut(h, path, [kind |-> "file", ino |-> ino, mode |-> gomode])]

\* os.Remove(path): ok = FALSE is an error of the host's own
Remove(h, path, ok) ==
    IF ok THEN [q \in DOMAIN h \ {path} |-> h[q]] ELSE h

(***************************************************************************)
(* writeOwnership(path, uid, gid) on the sidecars sc.  how is "ok", or     *)
(* "open" when OpenFile fails, or "write" when WriteString fails after     *)
(* OpenFile has created or truncated the sidecar.                          *)
(***************************************************************************)
writeOwnership(sc, path, uid, gid, how) ==
    CASE how = "ok"    -> [err |-> "", sidecar |-> MapPut(sc, path, uid \o ":" \o gid \o "\n")]
      [] how = "write" -> [err |-> "no space left on device", sidecar |-> MapPut(sc, path, "")]
      [] OTHER         -> [err |-> "permission denied", sidecar |-> sc]

\* The outcomes of the host calls of one rcreate: OpenFile, writeOwnership,
\* fp.Stat with info2stat, os.Remove.
IOs ==
    {[open |-> FALSE, side |-> "ok",    stat |-> TRUE,  remove |-> TRUE],
     [open |-> TRUE,  side |-> "open",  stat |-> TRUE,  remove |-> TRUE],
     [open |-> TRUE,  side |-> "write", stat |-> TRUE,  remove |-> TRUE],
     [open |-> TRUE,  side |-> "ok",    stat |-> FALSE, remove |-> TRUE],
     [open |-> TRUE,  side |-> "ok",    stat |-> FALSE, remove |-> FALSE],
     [open |-> TRUE,  side |-> "ok",    stat |-> TRUE,  remove |-> TRUE]}

IOok == [open |-> TRUE, side |-> "ok", stat |-> TRUE, remove |-> TRUE]

(***************************************************************************)
(* rcreate                                                                 *)
(***************************************************************************)
\* The new File with the creator's name as its group.
NewFileOwnGroup(fc, ino, uid, gid, parent) ==
    [Name     |-> fc.Name,
     Type     |-> {},
     QidType  |-> Uint8(Shr(fc.Perm, 24)),
     QidVers  |-> {},
     QidPath  |-> ino,
     Mode     |-> fc.Perm,
     Length   |-> 0,
     Uid      |-> uid,
     Gid      |-> uid,
     Muid     |-> uid,
     parent   |-> parent,
     children |-> [nil |-> TRUE, m |-> EmptyMap],
     isdir    |-> BitAnd(fc.Perm, DMDIR) # {}]

\* The new File with the root as its parent.
NewFileBelowRoot(fc, ino, uid, gid, parent) ==
    [Name     |-> fc.Name,
     Type     |-> {},
     QidType  |-> Uint8(Shr(fc.Perm, 24)),
     QidVers  |-> {},
     QidPath  |-> ino,
     Mode     |-> fc.Perm,
     Length   |-> 0,
     Uid      |-> uid,
     Gid      |-> gid,
     Muid     |-> uid,
     parent   |-> Root,
     children |-> [nil |-> TRUE, m |-> EmptyMap],
     isdir    |-> BitAnd(fc.Perm, DMDIR) # {}]

\* new(File) with the assignments of rcreate
NewFile(fc, ino, uid, gid, parent) ==
    [Name     |-> fc.Name,
     Type     |-> {},
     QidType  |-> Uint8(Shr(fc.Perm, 24)),
     QidVers  |-> {},
     QidPath  |-> ino,
     Mode     |-> fc.Perm,
     Length   |-> 0,
     Uid      |-> uid,
     Gid      |-> gid,
     Muid     |-> uid,
     parent   |-> parent,
     children |-> [nil |-> TRUE, m |-> EmptyMap],
     isdir    |-> BitAnd(fc.Perm, DMDIR) # {}]

\* rcreate from os.OpenFile on: the host calls and the new node
CreateOnHost(c, fc, io) ==
    LET fid      == fids[c][fc.Fid]
        parent   == tree[fid.file]
        ospath   == OsPath(parent.Name, fc.Name)
        fsyspath == FsysPath(parent.Name, fc.Name)
        goflags  == openflags(fc.Mode, fc.Perm) \cup {"O_CREATE"}
        gomode   == BitAnd(fc.Perm, Mask0777)
        fp       == OpenFile(host, nextIno, ospath, goflags, gomode, io.open)
        uid      == fid.uid
        gid      == parent.Gid
        own      == writeOwnership(sidecar, ospath, uid, gid, io.side)
        onhost   == [Unchanged(c) EXCEPT !.opened = TRUE, !.host = fp.host,
                                         !.nextIno = fp.nextIno, !.sidecar = own.sidecar]
        new      == Len(tree) + 1
        f        == NewFile(fc, fp.ino, uid, gid, fid.file)
    IN  IF fp.err # "" THEN Fail(c, fsyspath \o ": " \o fp.err)
        ELSE IF own.err # "" THEN [onhost EXCEPT !.emsg = fsyspath \o ": " \o own.err]
        ELSE IF ~io.stat
             THEN [onhost EXCEPT
                      !.host = Remove(fp.host, ospath, io.remove),
                      !.emsg = fsyspath \o ": " \o "stat failed" \o
                               (IF io.remove THEN "" ELSE " (and file was left on disk)")]
        ELSE IF parent.children.nil
             THEN \* assignment to an entry of a nil map
                  [onhost EXCEPT !.panic = TRUE]
        ELSE [onhost EXCEPT
                 !.tree = Append([tree EXCEPT ![fid.file].children.m =
                                      MapPut(parent.children.m, fc.Name, new)], f),
                 !.fidsC = MapPut(fids[c], fc.Fid, [file |-> new, uid |-> uid, open |-> TRUE]),
                 !.rc = [rcReset EXCEPT !.Type = Rcreate, !.Qid = Qid(f)]]

rcreate(c, fc, io) ==
    IF fc.Fid \notin DOMAIN fids[c] THEN Fail(c, "fid not found")
    ELSE LET fid    == fids[c][fc.Fid]
             parent == tree[fid.file]
         IN  IF BitAnd(parent.QidType, QTDIR) = {}
                 THEN Fail(c, parent.Name \o " is not a directory")
             ELSE IF fc.Name = "." \/ fc.Name = ".."
                 THEN Fail(c, fc.Name \o " invalid name")
             ELSE IF ~CheckPerm(parent, fid.uid, DMWRITE)
                 THEN Fail(c, "permission denied")
             ELSE IF fc.Name \in DOMAIN parent.children.m
                 THEN Fail(c, "already exists")
             ELSE IF BitAnd(fc.Perm, QTDIR) = One /\ BitAnd(fc.Mode, Three) # OREAD
                 THEN Fail(c, "can only create a directory in read mode")
             ELSE CreateOnHost(c, fc, io)

(***************************************************************************)
(* rwalk                                                                   *)
(***************************************************************************)
RECURSIVE WalkNames(_, _, _, _, _)
\* The loop of rwalk from its i-th name on (i counts from 1): f is the node
\* reached, wqid is rc.Wqid.  all says that every name was walked.
WalkNames(f, uid, wname, i, wqid) ==
    IF i > Len(wname) THEN [emsg |-> "", wqid |-> wqid, file |-> f, all |-> TRUE]
    ELSE LET wn   == wname[i]
             stop == [emsg |-> "", wqid |-> wqid, file |-> f, all |-> FALSE]
         IN  IF wn = ".."
             THEN WalkNames(tree[f].parent, uid, wname, i + 1,
                            Append(wqid, Qid(tree[tree[f].parent])))
             ELSE IF wn \notin DOMAIN tree[f].children.m
             THEN IF i = 1 THEN [stop EXCEPT !.emsg = "'" \o wn \o "' not found"] ELSE stop
             ELSE LET g == tree[f].children.m[wn]
                  IN  IF BitAnd(tree[g].Type, QTDIR) = One /\ ~CheckPerm(tree[g], uid, DMEXEC)
                      THEN IF i = 1 THEN [stop EXCEPT !.emsg = "permission denied"] ELSE stop
                      ELSE WalkNames(g, uid, wname, i + 1, Append(wqid, Qid(tree[g])))

\* Conn.fids holds pointers to Fids, and the empty walk stores the pointer of
\* fid under newfid.  No handler writes to a Fid it has stored (rcreate puts
\* a new Fid in the table), so the table is modelled as holding values.
rwalk(c, fc) ==
    IF fc.Fid \notin DOMAIN fids[c] THEN Fail(c, "fid " \o ToString(fc.Fid) \o " not found")
    ELSE LET fid == fids[c][fc.Fid]
             w   == WalkNames(fid.file, fid.uid, fc.Wname, 1, <<>>)
         IN  IF Len(fc.Wname) > 0 /\ BitAnd(tree[fid.file].Type, QTDIR) = One
                 THEN Fail(c, "not a directory")
             ELSE IF fid.open THEN Fail(c, "already open")
             ELSE IF Len(fc.Wname) = 0
                 THEN [Unchanged(c) EXCEPT !.fidsC = MapPut(fids[c], fc.Newfid, fid)]
             ELSE IF fc.Newfid \in DOMAIN fids[c] THEN Fail(c, "already in use")
             ELSE IF w.emsg # "" THEN Fail(c, w.emsg)
             ELSE IF ~w.all THEN [Unchanged(c) EXCEPT !.rc = [rcReset EXCEPT !.Wqid = w.wqid]]
             ELSE [Unchanged(c) EXCEPT
                      !.rc = [rcReset EXCEPT !.Wqid = w.wqid],
                      !.fidsC = MapPut(fids[c], fc.Newfid,
                                       [file |-> w.file, uid |-> fid.uid, open |-> FALSE])]

(***************************************************************************)
(* fcallhandler: one turn of the dispatcher's loop on the ConnFcall (c, fc)*)
(***************************************************************************)
\* fcallhandlers[fc.Type](x), or "bad fcall type"
Handler(c, fc, io) ==
    CASE fc.Type = Tversion -> rversion(c, fc)
      [] fc.Type = Tattach  -> rattach(c, fc)
      [] fc.Type = Tauth    -> rauth(c, fc)
      [] fc.Type = Tstat    -> rstat(c, fc)
      [] fc.Type = Tcreate  -> rcreate(c, fc, io)
      [] fc.Type = Twalk    -> rwalk(c, fc)
      [] OTHER              -> Fail(c, "bad fcall type")

\* fcallhandler leaving the type of a successful reply to the handler
ReplyKeepsType(fc, emsg, hrc) ==
    IF emsg # ""
    THEN [hrc EXCEPT !.Type = Rerror, !.Ename = emsg, !.Tag = fc.Tag]
    ELSE [hrc EXCEPT !.Fid = fc.Fid, !.Tag = fc.Tag]

\* rc as fcallhandler writes it out, from rc as the handler left it
Reply(fc, emsg, hrc) ==
    IF emsg # ""
    THEN [hrc EXCEPT !.Type = Rerror, !.Ename = emsg, !.Tag = fc.Tag]
    ELSE [hrc EXCEPT !.Type = fc.Type + 1, !.Fid = fc.Fid, !.Tag = fc.Tag]

NoLast ==
    [conn |-> "", fc |-> TMsg(0, 0), io |-> IOok, emsg |-> "", dropped |-> <<>>,
     pending |-> <<>>, fids |-> EmptyMap, panic |-> FALSE]

\* The dispatcher handles (c, fc) and writes the reply; a panic ends the
\* process with what the handler had done on the host.  last keeps the
\* request, the senders that were blocked on fcallchan and the fid tables
\* as the handler found them.
Handle(c, fc, io) ==
    LET e == Handler(c, fc, io)
    IN  /\ ~crashed
        /\ e.opened => ncreate < MaxCreate
        /\ ncreate' = IF e.opened THEN ncreate + 1 ELSE ncreate
        /\ tree' = e.tree
        /\ host' = e.host
        /\ sidecar' = e.sidecar
        /\ nextIno' = e.nextIno
        /\ fids' = [fids EXCEPT ![c] = e.fidsC]
        /\ msize' = [msize EXCEPT ![c] = e.msizeC]
        /\ fcallchan' = e.chan
        /\ rc' = IF e.panic THEN rc ELSE Reply(fc, e.emsg, e.rc)
        /\ crashed' = e.panic
        /\ versioned' = IF fc.Type = Tversion THEN versioned \cup {c} ELSE versioned
        /\ last' = [conn |-> c, fc |-> fc, io |-> io, emsg |-> e.emsg,
                    dropped |-> e.dropped, pending |-> fcallchan,
                    fids |-> fids, panic |-> e.panic]
        /\ UNCHANGED <<pin, pout>>

(***************************************************************************)
(* Init: the state when Start returns, with the directory a of the host in *)
(* one of the given modes.                                                 *)
(***************************************************************************)
NoPerm == [mode |-> {}, fuid |-> "", uid |-> "", want |-> {}, member |-> FALSE]

Started(modes) ==
    /\ \E ma \in modes :
          /\ host = HostAtStart(ma)
          /\ tree = buildtree(HostAtStart(ma))
    /\ sidecar = EmptyMap
    /\ nextIno = Len(WalkOrder) + 1
    /\ ncreate = 0
    /\ fids = [c \in Conns |-> EmptyMap]
    /\ msize = [c \in Conns |-> MAX_MSIZE]
    /\ fcallchan = <<>>
    /\ cur = <<>>
    /\ rc = rcReset
    /\ last = NoLast
    /\ versioned = {}
    /\ crashed = FALSE

\* The goroutines Start has started, with the given connections accepted.
Running(accepted) ==
    /\ stopping = "none"
    /\ disp = "recv"
    /\ lis = "accept"
    /\ conh = "recv"
    /\ rd = [c \in Conns |-> IF c \in accepted THEN "read" ELSE "none"]
    /\ nread = [c \in Conns |-> 0]
    /\ recvd = <<>>
    /\ wrote = <<>>
    /\ failed = {}

Init == Started({Bits(493)}) /\ pin = NoPerm /\ pout = <<>> /\ Running(Conns)

(***************************************************************************)
(* One request at a time.  A reader decodes fc on connection c and sends   *)
(* it on fcallchan, on which no other sender waits; the dispatcher         *)
(* receives and handles it and writes rc out (Serve).  Then the dispatcher *)
(* goes round its loop (Loop); the rc.Reset() of the next turn is taken    *)
(* here, before the receive, where nothing else reads rc.                  *)
(***************************************************************************)
Serve(c, fc, io) ==
    /\ fcallchan = <<>>
    /\ cur = <<>>
    /\ last = NoLast
    /\ Handle(c, fc, io)
    /\ UNCHANGED cur
    /\ UNCHANGED threads

Loop ==
    /\ ~crashed
    /\ last # NoLast
    /\ last' = NoLast
    /\ rc' = rcReset
    /\ UNCHANGED <<tree, host, sidecar, nextIno, ncreate, fids, msize, fcallchan, cur,
                   versioned, crashed, pin, pout>>
    /\ UNCHANGED threads

\* The dispatcher waits in its receive from fcallchan.
Idle == last = NoLast /\ ~crashed

\* The outcomes of the host calls a request can meet.
IOsOf(fc) == IF fc.Type = Tcreate THEN IOs ELSE {IOok}

Tags == {1, 2}
Unames == {"adm", "bob"}

(***************************************************************************)
(* Spec: the requests of one client that attaches, walks and creates.      *)
(***************************************************************************)
CreateNames == {"x", "a", "", ".", ".."}
CreatePerms == {Bits(420), BitOr(DMDIR, Bits(448))}

Msgs ==
    {[TMsg(Tversion, 1) EXCEPT !.Msize = MAX_MSIZE, !.Version = VERSION9P]}
    \cup {[TMsg(Tattach, 1) EXCEPT !.Fid = f, !.Afid = NOFID, !.Uname = u, !.Aname = "/"] :
            f \in {0, 1}, u \in Unames}
    \cup {[TMsg(ty, 1) EXCEPT !.Fid = 0] : ty \in {Tauth, Tstat, Tclunk}}
    \cup {[TMsg(Tcreate, 1) EXCEPT !.Fid = f, !.Name = n, !.Perm = p, !.Mode = OREAD] :
            f \in {0, 1}, n \in CreateNames, p \in CreatePerms}
    \cup {[TMsg(Twalk, 1) EXCEPT !.Fid = f, !.Newfid = f + 1, !.Wname = w] :
            f \in {0, 1}, w \in {<<"a">>, <<"x">>, <<"f">>}}

Requests == Idle /\ \E fc \in Msgs : \E io \in IOsOf(fc) : Serve("c1", fc, io)

Next == Requests \/ Loop

Spec == Init /\ [][Next]_vars

(***************************************************************************)
(* SpecSession: two clients that negotiate versions and attach.            *)
(***************************************************************************)
Versions == {"9P2000", "9P2000.L", "9P2000L", ".9P2000", "9P1999.L"}
Msizes == {4096, MAX_MSIZE, MAX_MSIZE + 1}

SessionMsgs ==
    {[TMsg(Tversion, 1) EXCEPT !.Msize = m, !.Version = v] : m \in Msizes, v \in Versions}
    \cup {[TMsg(Tattach, 1) EXCEPT !.Fid = f, !.Afid = NOFID, !.Uname = u, !.Aname = "/"] :
            f \in {0, 1}, u \in Unames}
    \cup {[TMsg(Tattach, 1) EXCEPT !.Fid = 0, !.Afid = a, !.Uname = "bob", !.Aname = n] :
            a \in {NOFID, {}}, n \in {"/", "/home"}}
    \cup {[TMsg(ty, 1) EXCEPT !.Fid = 0] : ty \in {Tauth, Tstat, Tclunk}}
    \cup {[TMsg(Twalk, 1) EXCEPT !.Fid = 0, !.Newfid = 1, !.Wname = <<"a">>],
          [TMsg(Tcreate, 1) EXCEPT !.Fid = 1, !.Name = "a", !.Perm = Bits(420), !.Mode = OREAD]}

SessionRequests == Idle /\ \E c \in Conns, fc \in SessionMsgs : Serve(c, fc, IOok)

SessionNext == SessionRequests \/ Loop

SpecSession == Init /\ [][SessionNext]_vars

(***************************************************************************)
(* SpecWalk: one client that attaches and walks the tree built at startup, *)
(* for every mode of the directory a.                                      *)
(***************************************************************************)
WalkNameSeqs ==
    {<<>>, <<"a">>, <<"x">>, <<"..">>, <<"a", "a">>, <<"a", "x">>, <<"..", "a">>,
     <<"f", "..">>, <<"f">>}

WalkMsgs ==
    {[TMsg(Tattach, 1) EXCEPT !.Fid = 0, !.Afid = NOFID, !.Uname = u, !.Aname = "/"] :
        u \in Unames}
    \cup {[TMsg(Twalk, 1) EXCEPT !.Fid = f, !.Newfid = g, !.Wname = w] :
            f \in FidNums, g \in FidNums, w \in WalkNameSeqs}

WalkInit == Started(StartModes) /\ pin = NoPerm /\ pout = <<>> /\ Running(Conns)

WalkRequests == Idle /\ \E fc \in WalkMsgs : Serve("c1", fc, IOok)

WalkNext == WalkRequests \/ Loop

SpecWalk == WalkInit /\ [][WalkNext]_vars

(***************************************************************************)
(* SpecChan: the readers and the dispatcher as the goroutines they are.    *)
(* fcallchan has no buffer: the reader of c blocks in its send until the   *)
(* dispatcher receives, so at most one request of c waits (ConnRecv).  The *)
(* dispatcher receives from the sender that has waited longest (Receive),  *)
(* runs the handler and writes the reply (Dispatch), and loops (Loop).     *)
(***************************************************************************)
ChanMsgs ==
    {[TMsg(Tversion, t) EXCEPT !.Msize = MAX_MSIZE, !.Version = VERSION9P] : t \in Tags}
    \cup {[TMsg(Tattach, t) EXCEPT !.Fid = 0, !.Afid = NOFID, !.Uname = "adm", !.Aname = "/"] :
            t \in Tags}
    \cup {[TMsg(Tstat, t) EXCEPT !.Fid = 0] : t \in Tags}

\* Conn.recv: ReadFcall returns fc and the reader sends it on fcallchan
ConnRecv(c, fc) ==
    /\ ~crashed
    /\ \A i \in 1..Len(fcallchan) : fcallchan[i].conn # c
    /\ fcallchan' = Append(fcallchan, [conn |-> c, fc |-> fc])
    /\ UNCHANGED <<tree, host, sidecar, nextIno, ncreate, fids, msize, cur, rc, last,
                   versioned, crashed, pin, pout>>
    /\ UNCHANGED threads

\* x, more := <-vu.fcallchan
Receive ==
    /\ Idle
    /\ cur = <<>>
    /\ fcallchan # <<>>
    /\ cur' = <<Head(fcallchan)>>
    /\ fcallchan' = Tail(fcallchan)
    /\ UNCHANGED <<tree, host, sidecar, nextIno, ncreate, fids, msize, rc, last,
                   versioned, crashed, pin, pout>>
    /\ UNCHANGED threads

\* the body of fcallhandler's loop on x
Dispatch ==
    /\ cur # <<>>
    /\ last = NoLast
    /\ Handle(cur[1].conn, cur[1].fc, IOok)
    /\ cur' = <<>>
    /\ UNCHANGED threads

ChanNext ==
    \/ \E c \in Conns, fc \in ChanMsgs : ConnRecv(c, fc)
    \/ Receive
    \/ Dispatch
    \/ Loop

SpecChan == Init /\ [][ChanNext]_vars

(***************************************************************************)
(* SpecPerm: CheckPerm on its own, on a node of every mode in 0..0777      *)
(* owned by adm, for every want, for the owner, another user and the empty *)
(* uid, whether or not the uid is a member of the node's group.            *)
(***************************************************************************)
PermInputs ==
    [mode : SUBSET Mask0777, fuid : {DEFAULT_USER}, uid : {"", "adm", "bob"},
     want : SUBSET (0..3), member : BOOLEAN]

\* A node with the given mode and owner.
PermFile(in) == [buildfile(HostAtStart(Bits(493)), 2) EXCEPT !.Mode = in.mode, !.Uid = in.fuid]

PermInit == Started({Bits(493)}) /\ pin \in PermInputs /\ pout = <<>> /\ Running(Conns)

PermCheck ==
    /\ pout = <<>>
    /\ pout' = <<CheckPerm(PermFile(pin), pin.uid, pin.want)>>
    /\ UNCHANGED <<tree, host, sidecar, nextIno, ncreate, fids, msize, fcallchan, cur,
                   rc, last, versioned, crashed, pin>>
    /\ UNCHANGED threads

PermNext == PermCheck

SpecPerm == PermInit /\ [][PermNext]_vars

(***************************************************************************)
(* SpecStop: every goroutine of the server, and a caller of Stop.  c1 is   *)
(* connected when the run starts; c2 connects through listen and           *)
(* connhandler.  Each reader decodes at most MaxReq requests, the n-th of  *)
(* a connection with tag n.  vu.connchan and vu.fcallchan have no buffer:  *)
(* a send completes in the step in which the receiver takes it.  A send on *)
(* a closed channel, and the close of a channel on which a sender is       *)
(* blocked, panic in the sender and end the process (crashed).  vu.dying   *)
(* is read by fcallhandler and connhandler without synchronisation with    *)
(* Stop's write: once Stop has written it, a read gives either value.      *)
(***************************************************************************)
MaxReq == 2

StopMsgs(t) ==
    { [TMsg(Tversion, t) EXCEPT !.Msize = MAX_MSIZE, !.Version = VERSION9P],
      [TMsg(Tattach, t) EXCEPT !.Fid = 0, !.Afid = NOFID, !.Uname = "adm", !.Aname = "/"] }

StopInit == Started({Bits(493)}) /\ pin = NoPerm /\ pout = <<>> /\ Running({"c1"})

\* What the goroutines leave alone when they do not serve a request.
served == <<tree, host, sidecar, nextIno, ncreate, fids, msize, versioned, pin, pout>>

\* c.dying of a connection: Stop sets it, and closes c.rwc, for every
\* connection in vu.connections.
CDying(c) == Dying /\ rd[c] # "none"

\* Where Conn.recv is after its send: at the test of its for loop.
AfterSend(c) == IF CDying(c) THEN "exit" ELSE "read"

\* listen: Accept returns the connection c
Accept(c) ==
    /\ ~crashed
    /\ lis = "accept"
    /\ stopping \in {"none", "closefcall", "drain", "listener"}
    /\ rd[c] = "none"
    /\ IF Dying
       THEN \* vu.connchan <- c on the closed channel
            crashed' = TRUE /\ lis' = lis
       ELSE crashed' = FALSE /\ lis' = c
    /\ UNCHANGED <<served, fcallchan, cur, rc, last, stopping, disp, conh, rd, nread,
                   recvd, wrote, failed>>

\* listen: Accept fails on the closed listener and the loop ends
AcceptFail ==
    /\ ~crashed
    /\ lis = "accept"
    /\ stopping \in {"waitconn", "waitfcall", "returned"}
    /\ lis' = "signal"
    /\ UNCHANGED <<served, fcallchan, cur, rc, last, crashed, stopping, disp, conh, rd, nread,
                   recvd, wrote, failed>>

\* connhandler receives the connection listen sends, starts its reader and
\* tests vu.dying
ConnHandle ==
    /\ ~crashed
    /\ conh = "recv"
    /\ lis \in Conns
    /\ ~Dying
    /\ rd' = [rd EXCEPT ![lis] = "read"]
    /\ lis' = "accept"
    /\ UNCHANGED <<served, fcallchan, cur, rc, last, crashed, stopping, disp, conh, nread,
                   recvd, wrote, failed>>

\* connhandler finds vu.dying set, or vu.connchan closed, and returns
ConnHandlerExit ==
    /\ ~crashed
    /\ conh = "recv"
    /\ Dying
    /\ conh' = "exit"
    /\ UNCHANGED <<served, fcallchan, cur, rc, last, crashed, stopping, disp, lis, rd, nread,
                   recvd, wrote, failed>>

\* A send made by a goroutine of its own: the reader reads on, and the
\* scheduler decides which of the waiting sends the receiver takes.
sendDetached(c, fc) ==
    [chan |-> <<[conn |-> c, fc |-> fc]>> \o fcallchan, rd |-> "read"]

\* c.srv.fcallchan <- &ConnFcall{c, fc}: the reader blocks behind the
\* senders that already wait, until the receiver takes its value.
send(c, fc) ==
    [chan |-> Append(fcallchan, [conn |-> c, fc |-> fc]), rd |-> "send"]

\* Conn.recv: ReadFcall returns a request and the reader starts its send
ReadOk(c, fc) ==
    /\ ~crashed
    /\ rd[c] = "read"
    /\ ~CDying(c)
    /\ nread[c] < MaxReq
    /\ nread' = [nread EXCEPT ![c] = @ + 1]
    /\ rd' = [rd EXCEPT ![c] = send(c, fc).rd]
    /\ fcallchan' = send(c, fc).chan
    /\ UNCHANGED <<served, cur, rc, last, crashed, stopping, disp, lis, conh, recvd, wrote,
                   failed>>

\* Conn.recv: ReadFcall returns an error (bytes that do not decode, or the
\* closed c.rwc) and the reader continues with the test of its loop
ReadFail(c) ==
    /\ ~crashed
    /\ rd[c] = "read"
    /\ failed' = failed \cup {c}
    /\ rd' = [rd EXCEPT ![c] = AfterSend(c)]
    /\ UNCHANGED <<served, fcallchan, cur, rc, last, crashed, stopping, disp, lis, conh, nread,
                   recvd, wrote>>

\* fcallhandler: x, more := <-vu.fcallchan with more true, and rc.Reset()
StopReceive ==
    /\ ~crashed
    /\ disp = "recv"
    /\ fcallchan # <<>>
    /\ cur' = <<Head(fcallchan)>>
    /\ fcallchan' = Tail(fcallchan)
    /\ rd' = [rd EXCEPT ![Head(fcallchan).conn] = AfterSend(Head(fcallchan).conn)]
    /\ recvd' = Append(recvd, [conn |-> Head(fcallchan).conn, tag |-> Head(fcallchan).fc.Tag])
    /\ rc' = rcReset
    /\ disp' = "handle"
    /\ UNCHANGED <<served, last, crashed, stopping, lis, conh, nread, wrote, failed>>

\* fcallhandler: the receive from the closed channel, more false
ReceiveClosed ==
    /\ ~crashed
    /\ disp = "recv"
    /\ fcallchan = <<>>
    /\ FcallchanClosed
    /\ disp' = "signal"
    /\ UNCHANGED <<served, fcallchan, cur, rc, last, crashed, stopping, lis, conh, rd, nread,
                   recvd, wrote, failed>>

\* The replies written once WriteFcall has been called with rc for the
\* request tag of conn; on a closed c.rwc it fails and nothing reaches the
\* client (ok false).
Written(conn, tag) ==
    Append(wrote, [conn |-> conn, tag |-> tag, ok |-> ~CDying(conn)])

\* fcallhandler: the handler of x and WriteFcall; the senders rversion
\* received from go on after their send
StopDispatch ==
    /\ disp = "handle"
    /\ Handle(cur[1].conn, cur[1].fc, IOok)
    /\ cur' = <<>>
    /\ wrote' = Written(cur[1].conn, cur[1].fc.Tag)
    /\ rd' = [c \in Conns |->
                IF c \in {fcallchan[i].conn : i \in 1..(Len(fcallchan) - Len(fcallchan'))}
                THEN AfterSend(c) ELSE rd[c]]
    /\ disp' = "loop"
    /\ UNCHANGED <<stopping, lis, conh, nread, recvd, failed>>

\* fcallhandler: the test of vu.dying at the head of its loop; seeing it
\* set, fcallhandler returns
LoopCheck(seen) ==
    /\ ~crashed
    /\ disp = "loop"
    /\ seen => Dying
    /\ disp' = IF seen THEN "exit" ELSE "recv"
    /\ last' = NoLast
    /\ UNCHANGED <<served, fcallchan, cur, rc, crashed, stopping, lis, conh, rd, nread,
                   recvd, wrote, failed>>

\* fcallhandler: vu.fcallchanDone <- true, taken by Stop's last receive
DispSignal ==
    /\ ~crashed
    /\ disp = "signal"
    /\ stopping = "waitfcall"
    /\ disp' = "exit"
    /\ stopping' = "returned"
    /\ UNCHANGED <<served, fcallchan, cur, rc, last, crashed, lis, conh, rd, nread,
                   recvd, wrote, failed>>

\* listen: vu.connchanDone <- true, taken by Stop's receive
ListenSignal ==
    /\ ~crashed
    /\ lis = "signal"
    /\ stopping = "waitconn"
    /\ lis' = "exit"
    /\ stopping' = "waitfcall"
    /\ UNCHANGED <<served, fcallchan, cur, rc, last, crashed, disp, conh, rd, nread,
                   recvd, wrote, failed>>

\* Stop: vu.dying = true, close(vu.connchan), and c.dying = true and
\* c.rwc.Close() for every connection
StopBegin ==
    /\ ~crashed
    /\ stopping = "none"
    /\ stopping' = "closefcall"
    /\ crashed' = (lis \in Conns)
    /\ UNCHANGED <<served, fcallchan, cur, rc, last, disp, lis, conh, rd, nread,
                   recvd, wrote, failed>>

\* close(vu.fcallchan) that leaves the blocked senders to be received from
CloseKeepsSenders == FALSE

\* Stop: close(vu.fcallchan); a sender blocked on the channel panics
ClosePanics == fcallchan # <<>>

StopCloseFcall ==
    /\ ~crashed
    /\ stopping = "closefcall"
    /\ stopping' = "drain"
    /\ crashed' = ClosePanics
    /\ UNCHANGED <<served, fcallchan, cur, rc, last, disp, lis, conh, rd, nread,
                   recvd, wrote, failed>>

\* Stop: for x := range vu.fcallchan, one turn of the loop or its end
StopDrain ==
    /\ ~crashed
    /\ stopping = "drain"
    /\ IF fcallchan # <<>>
       THEN /\ rc' = [rc EXCEPT !.Ename = "file system stopped",
                                !.Tag = Head(fcallchan).fc.Tag, !.Type = Rerror]
            /\ wrote' = Written(Head(fcallchan).conn, Head(fcallchan).fc.Tag)
            /\ fcallchan' = Tail(fcallchan)
            /\ rd' = [rd EXCEPT ![Head(fcallchan).conn] = AfterSend(Head(fcallchan).conn)]
            /\ stopping' = stopping
       ELSE /\ stopping' = "listener"
            /\ UNCHANGED <<rc, wrote, fcallchan, rd>>
    /\ UNCHANGED <<served, cur, last, crashed, disp, lis, conh, nread, recvd, failed>>

\* Stop: vu.listener.Close()
StopListener ==
    /\ ~crashed
    /\ stopping = "listener"
    /\ stopping' = "waitconn"
    /\ UNCHANGED <<served, fcallchan, cur, rc, last, crashed, disp, lis, conh, rd, nread,
                   recvd, wrote, failed>>

StopNext ==
    \/ \E c \in Conns : Accept(c)
    \/ AcceptFail
    \/ ConnHandle
    \/ ConnHandlerExit
    \/ \E c \in Conns : \E fc \in StopMsgs(nread[c] + 1) : ReadOk(c, fc)
    \/ \E c \in Conns : ReadFail(c)
    \/ StopReceive
    \/ ReceiveClosed
    \/ StopDispatch
    \/ \E seen \in BOOLEAN : LoopCheck(seen)
    \/ DispSignal
    \/ ListenSignal
    \/ StopBegin
    \/ StopCloseFcall
    \/ StopDrain
    \/ StopListener

SpecStop == StopInit /\ [][StopNext]_vars

(***************************************************************************)
(* SpecFid: one client that binds the fids 0 and 1 by Tattach and by       *)
(* Twalk, with and without names and onto either fid number, and opens     *)
(* them by Tcreate.                                                        *)
(***************************************************************************)
FidMsgs ==
    {[TMsg(Tattach, 1) EXCEPT !.Fid = f, !.Afid = NOFID, !.Uname = "adm", !.Aname = "/"] :
        f \in {0, 1}}
    \cup {[TMsg(Tcreate, 1) EXCEPT !.Fid = f, !.Name = n, !.Perm = p, !.Mode = OREAD] :
            f \in {0, 1}, n \in {"x", "y"}, p \in CreatePerms}
    \cup {[TMsg(Twalk, 1) EXCEPT !.Fid = f, !.Newfid = g, !.Wname = w] :
            f \in {0, 1}, g \in {0, 1}, w \in {<<>>, <<"a">>, <<"x">>, <<"a", "a">>}}

FidRequests == Idle /\ \E fc \in FidMsgs : Serve("c1", fc, IOok)

FidNext == FidRequests \/ Loop

SpecFid == Init /\ [][FidNext]_vars

(***************************************************************************)
(* The properties.  A state in which last is not NoLast is the state right *)
(* after the dispatcher has handled last.fc of connection last.conn and    *)
(* written rc out.                                                         *)
(***************************************************************************)
Answered == last # NoLast /\ ~last.panic

\* The types fcallhandlers has a handler for.
Handled == {Tversion, Tauth, Tattach, Tstat, Tcreate, Twalk}

\* C1: whenever the handler of a T-message returns, the reply written has one
\* of two shapes.  If the handler returned no error, its type is the type of
\* the T-message plus one, with the tag and the fid of the T-message,
\* whatever type the handler left in rc.  If the handler returned an error,
\* or the type has no handler, it is Rerror with that error string ("bad
\* fcall type" for a type without handler) and the tag of the T-message.
C1_ReplyShape ==
    Answered =>
        /\ \/ /\ last.emsg = ""
              /\ last.fc.Type \in Handled
              /\ rc.Type = last.fc.Type + 1
              /\ rc.Tag = last.fc.Tag
              /\ rc.Fid = last.fc.Fid
              /\ rc.Ename = ""
           \/ /\ last.emsg # ""
              /\ rc.Type = Rerror
              /\ rc.Ename = last.emsg
              /\ rc.Tag = last.fc.Tag
        /\ last.fc.Type \notin Handled => rc.Ename = "bad fcall type"

\* C1 witness: a Tcreate has succeeded; rcreate had set the type itself.
C1_Witness ==
    /\ Answered
    /\ last.fc.Type = Tcreate
    /\ last.emsg = ""
    /\ rc.Type = Rcreate
    /\ rc.Tag = last.fc.Tag

\* C2: a Tattach succeeds exactly when aname is "/", afid is NOFID and fid is
\* not bound on its connection.  Then the fid table of the connection gains
\* the entry fid -> (root, uname, not open) and nothing else changes in any
\* fid table, and the reply carries the root's qid.  Otherwise the reply is
\* Rerror and every fid table is as it was; the error is "can only attach to
\* root directory" for a wrong aname and "fid already in use on this
\* connection" when only the binding of fid stands in the way.
C2_Attach ==
    (Answered /\ last.fc.Type = Tattach) =>
        LET fc    == last.fc
            bound == fc.Fid \in DOMAIN last.fids[last.conn]
        IN  IF fc.Aname = "/" /\ fc.Afid = NOFID /\ ~bound
            THEN /\ rc.Type = Tattach + 1
                 /\ rc.Qid = Qid(tree[Root])
                 /\ fids = [last.fids EXCEPT ![last.conn] =
                               MapPut(@, fc.Fid, [file |-> Root, uid |-> fc.Uname, open |-> FALSE])]
            ELSE /\ rc.Type = Rerror
                 /\ fids = last.fids
                 /\ fc.Aname # "/" => rc.Ename = "can only attach to root directory"
                 /\ (fc.Aname = "/" /\ fc.Afid = NOFID) =>
                        rc.Ename = "fid already in use on this connection"

\* C2 witness: a second Tattach on a bound fid, for another user, was refused
\* and the binding is the first one's.
C2_Witness ==
    /\ Answered
    /\ last.fc.Type = Tattach
    /\ last.fc.Fid \in DOMAIN last.fids[last.conn]
    /\ last.fids[last.conn][last.fc.Fid].uid # last.fc.Uname
    /\ rc.Ename = "fid already in use on this connection"
    /\ fids = last.fids

\* C3: on a connection on which no Tversion has been handled, a T-message
\* other than Tversion is answered with Rerror, binds no fid and changes no
\* node of the tree.
C3_VersionFirst ==
    (Answered /\ last.fc.Type # Tversion /\ last.conn \notin versioned) =>
        /\ rc.Type = Rerror
        /\ fids = last.fids
        /\ tree = buildtree(host)

Of(c, q) == {q[i] : i \in {j \in 1..Len(q) : q[j].conn = c}}

\* C5: when a Tversion of connection c is handled while requests wait on
\* fcallchan, the Tversion is answered with Rversion, and the requests taken
\* off fcallchan are exactly the waiting requests of c.
C5_VersionReset ==
    (Answered /\ last.fc.Type = Tversion /\ last.pending # <<>>) =>
        /\ rc.Type = Rversion
        /\ Of(last.conn, last.dropped) = Of(last.conn, last.pending)
        /\ \A d \in Conns \ {last.conn} : Of(d, last.dropped) = {}

(***************************************************************************)
(* The walk as 9P describes it, on the tree t: the nodes visited along the *)
(* leading names of wname that resolve from node f for uid.  ".." resolves *)
(* to the parent; another name resolves to the child of that name, when    *)
(* there is one and, if it is a directory, uid may enter it.               *)
(***************************************************************************)
MayEnter(t, g, uid) == t[g].isdir => CheckPerm(t[g], uid, DMEXEC)

RECURSIVE Visited(_, _, _, _, _)
Visited(t, f, uid, wname, i) ==
    IF i > Len(wname) THEN <<>>
    ELSE LET wn == wname[i]
         IN  IF wn = ".." THEN <<t[f].parent>> \o Visited(t, t[f].parent, uid, wname, i + 1)
             ELSE IF wn \notin DOMAIN t[f].children.m THEN <<>>
             ELSE LET g == t[f].children.m[wn]
                  IN  IF ~MayEnter(t, g, uid) THEN <<>>
                      ELSE <<g>> \o Visited(t, g, uid, wname, i + 1)

\* A Twalk from a bound fid that is not open, to a newfid that is not bound,
\* has been answered.
WalkAnswered ==
    /\ Answered
    /\ last.fc.Type = Twalk
    /\ last.fc.Fid \in DOMAIN last.fids[last.conn]
    /\ ~last.fids[last.conn][last.fc.Fid].open
    /\ last.fc.Newfid \notin DOMAIN last.fids[last.conn]

\* C6: a Twalk of n names from a bound fid that is not open, with newfid not
\* bound, where the first k names resolve.  If k = n the reply is Rwalk with
\* the qids of the n nodes visited and newfid is bound to the last of them
\* (to the node of fid if n = 0) with the uid of fid, not open.  If 0 < k < n
\* the reply is Rwalk with the k qids and newfid is not bound.  If k = 0 < n
\* the reply is Rerror and newfid is not bound.  Nothing else changes in the
\* fid tables.
C6_Walk ==
    WalkAnswered =>
        LET fc  == last.fc
            fid == last.fids[last.conn][fc.Fid]
            vis == Visited(tree, fid.file, fid.uid, fc.Wname, 1)
            n   == Len(fc.Wname)
            k   == Len(vis)
            end == IF n = 0 THEN fid.file ELSE vis[k]
        IN  IF k = n
            THEN /\ rc.Type = Twalk + 1
                 /\ rc.Wqid = [i \in 1..k |-> Qid(tree[vis[i]])]
                 /\ fids = [last.fids EXCEPT ![last.conn] =
                               MapPut(@, fc.Newfid, [file |-> end, uid |-> fid.uid, open |-> FALSE])]
            ELSE IF k > 0
            THEN /\ rc.Type = Twalk + 1
                 /\ rc.Wqid = [i \in 1..k |-> Qid(tree[vis[i]])]
                 /\ fids = last.fids
            ELSE /\ rc.Type = Rerror
                 /\ fids = last.fids

\* The directories on the way from the root to node g, g included, the root
\* excluded.
RECURSIVE Above(_, _)
Above(t, g) ==
    IF t[g].parent = g THEN {}
    ELSE (IF t[g].isdir THEN {g} ELSE {}) \cup Above(t, t[g].parent)

\* C7: a Twalk (from a bound fid that is not open, to a newfid that is not
\* bound) whose first name is a directory that the uid of fid has no execute
\* permission on is answered with Rerror "permission denied" and binds
\* nothing; and no fid is ever bound to a directory its uid may not enter or
\* to a node below one.
C7_WalkExec ==
    /\ WalkAnswered =>
          LET fc  == last.fc
              fid == last.fids[last.conn][fc.Fid]
              kid == tree[fid.file].children.m
          IN  (/\ Len(fc.Wname) > 0
               /\ fc.Wname[1] \in DOMAIN kid
               /\ ~MayEnter(tree, kid[fc.Wname[1]], fid.uid)) =>
                  /\ rc.Type = Rerror
                  /\ rc.Ename = "permission denied"
                  /\ fids = last.fids
    /\ \A c \in Conns : \A n \in DOMAIN fids[c] :
          \A d \in Above(tree, fids[c][n].file) : CheckPerm(tree[d], fids[c][n].uid, DMEXEC)

\* The step is the handling of a Tcreate that is answered with Rcreate: the
\* effects of the Tcreate on the tree, the host, the sidecars, the fid
\* tables and the reply.
CreateEffects ==
    (last' # NoLast /\ ~last'.panic /\ last'.fc.Type = Tcreate /\ rc'.Type = Rcreate) =>
        LET c   == last'.conn
            fc  == last'.fc
            fid == fids[c][fc.Fid]
            p   == fid.file
            new == Len(tree) + 1
        IN  /\ fc.Fid \in DOMAIN fids[c]
            /\ Len(tree') = new
            /\ \A i \in 1..Len(tree) : i # p => tree'[i] = tree[i]
            /\ tree'[p] = [tree[p] EXCEPT !.children.m = MapPut(@, fc.Name, new)]
            /\ tree'[new].Name = fc.Name
            /\ tree'[new].parent = p
            /\ tree'[new].Uid = fid.uid
            /\ tree'[new].Muid = fid.uid
            /\ tree'[new].Gid = tree[p].Gid
            /\ tree'[new].Length = 0
            /\ \E path \in DOMAIN host' :
                  /\ host'[path].ino = tree'[new].QidPath
                  /\ path \in DOMAIN sidecar'
                  /\ sidecar'[path] = fid.uid \o ":" \o tree[p].Gid \o "\n"
                  /\ \A q \in DOMAIN host' \ {path} : q \in DOMAIN host /\ host'[q] = host[q]
                  /\ \A q \in DOMAIN host : q \in DOMAIN host'
                  /\ \A q \in DOMAIN sidecar' \ {path} : q \in DOMAIN sidecar /\ sidecar'[q] = sidecar[q]
            /\ fids' = [fids EXCEPT ![c] =
                           MapPut(@, fc.Fid, [file |-> new, uid |-> fid.uid, open |-> TRUE])]
            /\ rc'.Qid = Qid(tree'[new])

\* The step is the handling of a Twalk of one name from a fid at the root
\* (not open, newfid not bound), and the name is that of a child of the root
\* that a Tcreate has made: it is answered with the qid of that node.
WalkToCreated ==
    LET c  == last'.conn
        fc == last'.fc
    IN  (/\ last' # NoLast
         /\ last'.fc.Type = Twalk
         /\ fc.Fid \in DOMAIN fids[c]
         /\ fids[c][fc.Fid].file = Root
         /\ ~fids[c][fc.Fid].open
         /\ fc.Newfid \notin DOMAIN fids[c]
         /\ Len(fc.Wname) = 1
         /\ fc.Wname[1] \in DOMAIN tree[Root].children.m
         /\ tree[Root].children.m[fc.Wname[1]] > Len(WalkOrder)) =>
            /\ rc'.Type = Twalk + 1
            /\ rc'.Wqid = <<Qid(tree[tree[Root].children.m[fc.Wname[1]]])>>

\* No step changes the qid of a node.
QidsKept == \A i \in 1..Len(tree) : Len(tree') >= i /\ Qid(tree'[i]) = Qid(tree[i])

\* C8: a Tcreate answered with Rcreate has added one node to the tree, named
\* name, as the child name of the node of fid, with that node as its parent,
\* uid = muid = the uid of fid, gid = the gid of the parent, length 0 and the
\* inode of a host file as qid.path; the sidecar of that host file holds
\* "<uid>:<gid of the parent>\n"; fid is bound to the new node and open; the
\* reply carries the new node's qid; no other node, host file, sidecar or fid
\* has changed.  The qid of a node never changes, and a later Twalk of that
\* name from another fid at the root is answered with that qid.
C8_Create == [][CreateEffects /\ WalkToCreated /\ QidsKept]_vars

\* C8 witness: after a Tcreate of x in the root, a Twalk [x] from another fid
\* at the root has returned the qid of the created node.
C8_Witness ==
    /\ Answered
    /\ last.fc.Type = Twalk
    /\ last.fc.Wname = <<"x">>
    /\ last.fc.Fid \in DOMAIN last.fids[last.conn]
    /\ last.fids[last.conn][last.fc.Fid].file = Root
    /\ "x" \in DOMAIN tree[Root].children.m
    /\ tree[Root].children.m["x"] > Len(WalkOrder)
    /\ rc.Wqid = <<Qid(tree[tree[Root].children.m["x"]])>>
    /\ \E n \in DOMAIN fids[last.conn] :
          /\ fids[last.conn][n].open
          /\ fids[last.conn][n].file = tree[Root].children.m["x"]

\* The step is the handling of a Tcreate that violates a precondition: it is
\* answered with Rerror and leaves the tree, the fid tables, the host and
\* the sidecars as they were.
CreateRejected ==
    LET c     == last'.conn
        fc    == last'.fc
        bound == fc.Fid \in DOMAIN fids[c]
        fid   == fids[c][fc.Fid]
        dir   == tree[fid.file]
        named == fc.Name \notin {".", "..", ""}
        may   == CheckPerm(dir, fid.uid, DMWRITE)
    IN  (/\ last' # NoLast
         /\ fc.Type = Tcreate
         /\ \/ ~bound
            \/ ~dir.isdir
            \/ ~named
            \/ ~may
            \/ fc.Name \in DOMAIN dir.children.m) =>
            /\ ~crashed'
            /\ rc'.Type = Rerror
            /\ tree' = tree
            /\ fids' = fids
            /\ host' = host
            /\ sidecar' = sidecar
            /\ (bound /\ dir.isdir /\ fc.Name = "..") => rc'.Ename = ".. invalid name"
            /\ (bound /\ dir.isdir /\ named /\ ~may) => rc'.Ename = "permission denied"

\* C9: a Tcreate on an unbound fid, on a fid whose node is no directory, with
\* the name ".", ".." or "", by a uid without write permission on the
\* directory, or with the name of an existing child is answered with Rerror
\* (".. invalid name" for "..", "permission denied" for the missing
\* permission) and changes neither the tree nor the fid tables nor the host
\* files nor the sidecars.
C9_CreateRejected == [][CreateRejected]_vars

\* The permission check of the specification: the bits of others, with the
\* owner's bits for the owner and the group's bits for a member of the
\* node's group, must cover want; the empty uid is denied.
RefPerm(in) ==
    IF in.uid = "" THEN FALSE
    ELSE LET m == BitOr(BitOr(BitAnd(in.mode, Seven),
                              IF in.fuid = in.uid THEN BitAnd(Shr(in.mode, 6), Seven) ELSE {}),
                        IF in.member THEN BitAnd(Shr(in.mode, 3), Seven) ELSE {})
         IN  BitAnd(BitAnd(m, in.want), Seven) = BitAnd(in.want, Seven)

\* C10: CheckPerm(node, uid, want) is the permission check of the
\* specification, for every mode in 0..0777, every want, the owner, another
\* user and the empty uid, member of the node's group or not.
C10_CheckPerm == pout # <<>> => pout[1] = RefPerm(pin)
(***************************************************************************)
(* C11  Ordering.  The replies are written in exactly the order in which   *)
(* the dispatcher received their requests from fcallchan, and of two       *)
(* requests read from the same connection the one read first (the smaller  *)
(* tag of SpecStop) is received, handled and answered first.               *)
(***************************************************************************)
C11_Ordering ==
    /\ Len(wrote) <= Len(recvd)
    /\ \A i \in 1..Len(wrote) :
          wrote[i].conn = recvd[i].conn /\ wrote[i].tag = recvd[i].tag
    /\ \A i, j \in 1..Len(recvd) :
          (i < j /\ recvd[i].conn = recvd[j].conn) => recvd[i].tag < recvd[j].tag

\* two requests of one connection answered around one of the other
C11_Witness ==
    /\ Len(wrote) = 3
    /\ wrote[1].conn = wrote[3].conn
    /\ wrote[2].conn # wrote[1].conn

(***************************************************************************)
(* C12  No request is lost.  Every request a reader has decoded has been   *)
(* answered on its connection with its tag, exactly once, or is still on   *)
(* its way to the reply: its reader waits in the send on fcallchan, or the *)
(* dispatcher has received it and is handling it.                          *)
(***************************************************************************)
Answers(c, t) == {i \in 1..Len(wrote) : wrote[i].conn = c /\ wrote[i].tag = t /\ wrote[i].ok}

Waiting(c, t) == \E i \in 1..Len(fcallchan) : fcallchan[i].conn = c /\ fcallchan[i].fc.Tag = t

InHand(c, t) == cur # <<>> /\ cur[1].conn = c /\ cur[1].fc.Tag = t

C12_NoRequestLost ==
    \A c \in Conns : \A t \in 1..nread[c] :
        /\ Cardinality(Answers(c, t)) <= 1
        /\ Answers(c, t) = {} => Waiting(c, t) \/ InHand(c, t)

(***************************************************************************)
(* C13  Shutdown terminates.  Once Stop has been called it can still       *)
(* return: no goroutine has panicked, and neither the dispatcher nor the   *)
(* acceptor has ended without sending the termination signal that Stop     *)
(* waits for; when Stop has returned, both have sent it.                   *)
(***************************************************************************)
C13_StopReturns ==
    /\ Dying => ~crashed
    /\ disp = "exit" => stopping = "returned"
    /\ lis = "exit" => stopping \in {"waitfcall", "returned"}
    /\ stopping = "returned" => disp = "exit" /\ lis = "exit"

(***************************************************************************)
(* C14  Single writer.  Only a step of the dispatcher (its receive with    *)
(* rc.Reset(), or its handler with WriteFcall) changes the tree, the fid   *)
(* table or the msize of a connection; and while the dispatcher is between *)
(* rc.Reset() and WriteFcall no other thread changes rc, Stop included.    *)
(***************************************************************************)
DispatcherStep == disp \in {"recv", "handle"} /\ disp' # disp /\ stopping' = stopping

C14_SingleWriter ==
    [][ /\ (tree' # tree \/ fids' # fids \/ msize' # msize) => DispatcherStep
        /\ (rc' # rc /\ disp = "handle") => DispatcherStep ]_vars

\* Stop has been through its loop over fcallchan while the dispatcher holds
\* a Tattach between rc.Reset() and WriteFcall
C14_Witness ==
    /\ ~crashed
    /\ stopping = "listener"
    /\ disp = "handle"
    /\ cur[1].fc.Type = Tattach

(***************************************************************************)
(* C15  The dispatcher never panics.  Whatever requests it is sent and     *)
(* whatever the host calls return, the dispatcher has answered the request *)
(* it handled last, with a success reply or with Rerror, and the process   *)
(* runs on.                                                                *)
(***************************************************************************)
C15_NoPanic ==
    /\ ~crashed
    /\ last # NoLast => ~last.panic /\ rc.Tag = last.fc.Tag
                      /\ rc.Type \in {Rerror, last.fc.Type + 1}

(***************************************************************************)
(* C16  A decoding error is fatal to its connection.  While Stop has not   *)
(* been called, the reader of a connection on which ReadFcall has failed   *)
(* has terminated: it reads and enqueues nothing more.                     *)
(***************************************************************************)
C16_DecodeErrorFatal ==
    \A c \in failed : ~Dying => rd[c] = "exit"

(***************************************************************************)
(* C17  Tree links.  The root is its own parent; every other node is the   *)
(* child its parent holds under the node's name; and no child map has an   *)
(* entry named "." or "..".                                                *)
(***************************************************************************)
C17_TreeLinks ==
    /\ tree[Root].parent = Root
    /\ \A n \in 1..Len(tree) :
          n # Root =>
             LET kids == tree[tree[n].parent].children
             IN  /\ ~kids.nil
                 /\ tree[n].Name \in DOMAIN kids.m
                 /\ kids.m[tree[n].Name] = n
    /\ \A n \in 1..Len(tree) :
          \A name \in DOMAIN tree[n].children.m : name \notin {".", ".."}

\* a node created below the directory a, after a first create
C17_Witness ==
    /\ Answered
    /\ rc.Type = Rcreate
    /\ Len(tree) = Len(WalkOrder) + 2
    /\ tree[Len(tree)].parent # Root

(***************************************************************************)
(* C18  qid.path is unique.  The host gives distinct files distinct        *)
(* inodes (OpenFile, HostAtStart), and no two distinct nodes of the tree   *)
(* have the same qid.path.                                                 *)
(***************************************************************************)
C18_QidPathUnique ==
    \A m, n \in 1..Len(tree) : m # n => tree[m].QidPath # tree[n].QidPath

(***************************************************************************)
(* C19  Directory bit.  For every node of the tree, built at startup or    *)
(* made by Tcreate, the DIR bit of qid.type is set exactly when the node   *)
(* is a directory, and every directory node has a child map that a child   *)
(* can be inserted into (it is not nil).                                   *)
(***************************************************************************)
C19_DirBit ==
    \A n \in 1..Len(tree) :
        /\ (BitAnd(tree[n].QidType, QTDIR) # {}) <=> tree[n].isdir
        /\ tree[n].isdir => ~tree[n].children.nil

(***************************************************************************)
(* C20  Open fids.  In every step: a fid number that is bound to an open   *)
(* fid stays bound to the same node, open; a fid number becomes open only  *)
(* in the step that answers a Tcreate on it with Rcreate; and a Twalk or a *)
(* Tcreate on an open fid is answered with Rerror.                         *)
(***************************************************************************)
IsOpen(table, k) == k \in DOMAIN table /\ table[k].open

C20_OpenFid ==
    [][\A c \in Conns : \A k \in FidNums :
          /\ IsOpen(fids[c], k) => IsOpen(fids'[c], k) /\ fids'[c][k].file = fids[c][k].file
          /\ (IsOpen(fids'[c], k) /\ ~IsOpen(fids[c], k)) =>
                /\ last'.conn = c /\ last'.fc.Type = Tcreate /\ last'.fc.Fid = k
                /\ rc'.Type = Rcreate
          /\ (IsOpen(fids[c], k) /\ last = NoLast /\ last'.conn = c /\ last'.fc.Fid = k
                 /\ last'.fc.Type \in {Twalk, Tcreate}) =>
                ~crashed' /\ rc'.Type = Rerror
      ]_vars

(***************************************************************************)
(* C21  Twalk's newfid rule.  A Twalk from a bound fid that is not open    *)
(* has been answered.  (a) If newfid is another fid number and is bound,   *)
(* the reply is Rerror and the fid table is as it was, for any number of   *)
(* names, zero included.  (b) If newfid is fid and all names resolve, the  *)
(* reply is Rwalk and fid is bound to the last node.  And the walk is      *)
(* rejected as "already in use" only in the case of (a).                   *)
(***************************************************************************)
WalkHandled ==
    /\ Answered
    /\ last.fc.Type = Twalk
    /\ last.fc.Fid \in DOMAIN last.fids[last.conn]
    /\ ~last.fids[last.conn][last.fc.Fid].open

C21_Newfid ==
    WalkHandled =>
        LET c    == last.conn
            fc   == last.fc
            fid  == last.fids[c][fc.Fid]
            vis  == Visited(tree, fid.file, fid.uid, fc.Wname, 1)
            end  == IF fc.Wname = <<>> THEN fid.file ELSE vis[Len(vis)]
            used == fc.Newfid # fc.Fid /\ fc.Newfid \in DOMAIN last.fids[c]
        IN  /\ used => rc.Type = Rerror /\ fids = last.fids
            /\ (fc.Newfid = fc.Fid /\ Len(vis) = Len(fc.Wname)) =>
                   /\ rc.Type = Twalk + 1
                   /\ fids[c][fc.Fid].file = end
            /\ last.emsg = "already in use" => used

(***************************************************************************)
(* C22  Twalk from a node that is not a directory.  A Twalk with at least  *)
(* one name from a fid bound to a node that is not a directory is answered *)
(* with Rerror and binds no fid, whatever the names are.                   *)
(***************************************************************************)
C22_WalkFromFile ==
    (/\ Answered
     /\ last.fc.Type = Twalk
     /\ last.fc.Fid \in DOMAIN last.fids[last.conn]
     /\ last.fc.Wname # <<>>
     /\ ~tree[last.fids[last.conn][last.fc.Fid].file].isdir) =>
        rc.Type = Rerror /\ fids = last.fids

(***************************************************************************)
(* C23  Tcreate that fails after the host file exists.  In the step that   *)
(* handles a Tcreate whose os.OpenFile succeeded and whose sidecar write   *)
(* or stat then fails: the reply is Rerror, the tree and the fid tables    *)
(* are as they were, and either the host holds no file it did not hold     *)
(* before or the error string ends with " (and file was left on disk)".    *)
(***************************************************************************)
HasSuffix(s, x) == Len(s) >= Len(x) /\ SubSeq(s, Len(s) - Len(x) + 1, Len(s)) = x

FailsAfterOpen ==
    /\ last = NoLast
    /\ last' # NoLast
    /\ last'.fc.Type = Tcreate
    /\ ncreate' > ncreate
    /\ last'.io.side # "ok" \/ ~last'.io.stat

C23_CreateFailure ==
    [][FailsAfterOpen =>
          /\ rc'.Type = Rerror
          /\ tree' = tree
          /\ fids' = fids
          /\ \/ DOMAIN host' \subseteq DOMAIN host
             \/ HasSuffix(rc'.Ename, " (and file was left on disk)")
      ]_vars

(***************************************************************************)
(* C24  Backing path agrees with tree path.  In the step that answers a    *)
(* Tcreate with Rcreate, the host file of the new node is at the names     *)
(* from the tree root down to the new node, below the server root, with    *)
(* its sidecar beside it, and no other host file or sidecar is created or  *)
(* written: creates of one name under different directories never touch   *)
(* the same host file.                                                     *)
(***************************************************************************)
RECURSIVE TreePath(_, _)
TreePath(t, n) ==
    IF t[n].parent = n THEN <<>> ELSE Append(TreePath(t, t[n].parent), t[n].Name)

Created ==
    /\ last = NoLast
    /\ last' # NoLast
    /\ ~last'.panic
    /\ last'.fc.Type = Tcreate
    /\ rc'.Type = Rcreate

C24_BackingPath ==
    [][Created =>
          LET new  == Len(tree')
              path == TreePath(tree', new)
          IN  /\ path \in DOMAIN host'
              /\ host'[path].ino = tree'[new].QidPath
              /\ path \in DOMAIN sidecar'
              /\ \A q \in DOMAIN host' : q # path => q \in DOMAIN host /\ host'[q] = host[q]
              /\ \A q \in DOMAIN sidecar' :
                    q # path => q \in DOMAIN sidecar /\ sidecar'[q] = sidecar[q]
      ]_vars

====
